---- MODULE Spec2Model ----
(***************************************************************************)
(* Floopy Birb (src/main.rs): the fixed-step simulation core and the game  *)
(* mode state machine, as scheduled by the Bevy app built in main().       *)
(*                                                                         *)
(* Numbers.  The program computes in f32 with dt = 1/60 s.  The model uses *)
(* exact arithmetic on scaled integers:                                    *)
(*   positions and sizes in 1/180 px      (Px(p) = 180 * p)                *)
(*   velocities in 1/3 px/s               (Vel(v) = 3 * v)                 *)
(* so that  velocity * dt  in position units is the velocity in velocity   *)
(* units, and  acceleration * dt  in velocity units is accel / 20.         *)
(* Durations (timers, the fixed-step accumulator) are in nanoseconds, as   *)
(* in std::time::Duration.  The rounding of the f32 operations is not      *)
(* followed: positions and velocities are the exact rationals.             *)
(*                                                                         *)
(* Scheduling.  A frame of the Bevy app is: the clocks advance; the        *)
(* StateTransition schedule applies a pending NextState (running           *)
(* OnEnter(Playing) = start_game); the fixed loop runs FixedUpdate once    *)
(* per accumulated timestep; Update runs the input systems.  State changes *)
(* only in StateTransition, so a NextState set during the fixed loop takes *)
(* effect in the next frame.                                               *)
(***************************************************************************)
EXTENDS Integers, FiniteSets, Sequences, TLC

\* ------------------------------------------------------------------ constants
WINDOW_W == 800
WINDOW_H == 512
FIXED_HZ == 60
BIRD_SIZE_X == 34
BIRD_SIZE_Y == 24
BIRD_START_X == -150
BIRD_START_Y == 0
GRAVITY == -980
FLAP_VELOCITY == 340
MAX_FALL_SPEED == -500
PIPE_WIDTH == 80
PIPE_SPEED == -150
PIPE_GAP == 150
PIPE_SPAWN_INTERVAL_NS == 1600000024
PIPE_SPAWN_X == (WINDOW_W \div 2) + 60
PIPE_DESPAWN_X == (0 - (WINDOW_W \div 2)) - 100
GAP_MARGIN == 32

\* Time::<Fixed>::from_hz(60.0): Duration::from_secs_f64(1.0 / 60.0), rounded
\* to the nearest nanosecond.
Timestep == 16666667
\* Time<Virtual>'s default max_delta: a frame never advances the clock the
\* fixed-step accumulator reads by more than 250 ms.
MAX_DELTA == 250000000

\* ------------------------------------------------------------------ bounds
\* A host frame lasts a whole number of timesteps, at most this many.
MaxFrameTicks == 2
\* Fixed ticks simulated in one Playing session.
MaxTicks == 500
\* The player can press Space only every FlapGrid-th tick of a session.
FlapGrid == 32
\* The random gap center is one of GapSteps + 1 evenly spaced values of its range.
GapSteps == 2
\* Clock time observed by the scheduler-only specification, in nanoseconds.
MaxRealNs == 400000000
\* Fixed ticks and Space presses of the flyer-only specification.
MaxFlyerTicks == 60
MaxFlyerFlaps == 2
\* Fixed ticks of the spawner-only specification.
MaxSpawnerTicks == 100
\* Fixed ticks of the configurations specification.
MaxConfigTicks == 100

\* ------------------------------------------------------------------ units
Px(p) == 180 * p
Vel(v) == 3 * v
\* f32 acceleration (px/s^2) times dt = 1/60 s, in velocity units
AccelDt(a) == (3 * a) \div 60
\* f32 velocity (velocity units) times dt, in position units
VelDt(v) == v
\* f32 speed (px/s) times dt, in position units
SpeedDt(s) == (180 * s) \div 60
Abs(n) == IF n < 0 THEN 0 - n ELSE n

VARIABLES
  state,          \* State<GameState>
  next_state,     \* NextState<GameState>: "None" or the pending state
  score,          \* Score.0
  flap_requested, \* FlapInput.requested
  bird_y,         \* the Bird's Transform.translation.y
  bird_vy,        \* Bird.vy
  pipes,          \* the Pipe entities: [x, y, h, is_top, scored]
  spawn_elapsed,  \* PipeSpawnTimer's elapsed time
  overstep,       \* Time<Fixed>'s accumulated, not yet simulated time
  pc,             \* position in the frame: "first" or "fixed"
  ticks,          \* history: fixed ticks simulated in this session
  retired_scored, \* history: scored bottom pipes despawned in this session
  real_ns,        \* (scheduler alone) Time<Real>'s elapsed time
  virt_ns,        \* (scheduler alone) Time<Virtual>'s elapsed time
  fixed_runs,     \* history (scheduler alone): runs of the FixedUpdate schedule
  since_flap,     \* history (flyer alone): ticks since the last consumed flap
  presses,        \* history (flyer alone): Space presses buffered as flaps
  gap_center,     \* history (spawner alone): the gap center of the last spawn
  config          \* (configurations) the gap and margin the build was given

vars == <<state, next_state, score, flap_requested, bird_y, bird_vy, pipes,
          spawn_elapsed, overstep, pc, ticks, retired_scored, real_ns, virt_ns,
          fixed_runs, since_flap, presses, gap_center, config>>

world == <<score, bird_y, bird_vy, pipes, spawn_elapsed>>

\* The constants the build ships with, as a configuration (pixels)
Shipped == [gap |-> PIPE_GAP, margin |-> GAP_MARGIN]

GameState == {"Menu", "Playing", "GameOver"}

\* ------------------------------------------------------------------ systems
\* handle_flap_input that leaves the latch set
handle_flap_input_NoClear(vy, requested) ==
  IF requested THEN [vy |-> Vel(FLAP_VELOCITY), requested |-> TRUE]
               ELSE [vy |-> vy, requested |-> FALSE]

\* handle_flap_input that adds the impulse to the velocity
handle_flap_input_Additive(vy, requested) ==
  IF requested THEN [vy |-> vy + Vel(FLAP_VELOCITY), requested |-> FALSE]
               ELSE [vy |-> vy, requested |-> FALSE]

\* handle_flap_input: the velocity and the latch after the system
handle_flap_input(vy, requested) ==
  IF requested THEN [vy |-> Vel(FLAP_VELOCITY), requested |-> FALSE]
               ELSE [vy |-> vy, requested |-> FALSE]

\* apply_bird_physics without the fall-speed clamp
BirdVelocity_NoClamp(vy) == vy + AccelDt(GRAVITY)

\* apply_bird_physics: gravity, clamp, position
BirdVelocity(vy) ==
  LET v == vy + AccelDt(GRAVITY)
  IN  IF v < Vel(MAX_FALL_SPEED) THEN Vel(MAX_FALL_SPEED) ELSE v

apply_bird_physics(y, vy) ==
  LET v == BirdVelocity(vy)
  IN  [y |-> y + VelDt(v), vy |-> v]

\* move_pipes: every pipe moves left; those past the despawn line are removed
MovedPipe(p) == [p EXCEPT !.x = p.x + SpeedDt(PIPE_SPEED)]
Despawned(p) == p.x < Px(PIPE_DESPAWN_X)
\* move_pipes that never despawns
move_pipes_NoDespawn(ps) == {MovedPipe(p) : p \in ps}

move_pipes(ps) == {q \in {MovedPipe(p) : p \in ps} : ~Despawned(q)}
RetiredNow(ps) == {q \in {MovedPipe(p) : p \in ps} : Despawned(q)}

\* spawn_pipes: the repeating timer and the pair it spawns
half_h == Px(WINDOW_H) \div 2
\* a spawn range that forgets the margin
min_center_NoMargin == (0 - half_h) + (Px(PIPE_GAP) \div 2)

min_center == (0 - half_h) + Px(GAP_MARGIN) + (Px(PIPE_GAP) \div 2)
max_center == half_h - Px(GAP_MARGIN) - (Px(PIPE_GAP) \div 2)
GapCenters == {min_center + ((i * (max_center - min_center)) \div GapSteps) : i \in 0..GapSteps}

\* a timer that stays finished once its duration has elapsed
TimerTick_StaysFinished(elapsed) ==
  LET e == elapsed + Timestep
  IN  [just_finished |-> e >= PIPE_SPAWN_INTERVAL_NS,
       elapsed |-> IF e >= PIPE_SPAWN_INTERVAL_NS THEN PIPE_SPAWN_INTERVAL_NS ELSE e]

TimerTick(elapsed) ==
  LET e == elapsed + Timestep
  IN  [just_finished |-> e >= PIPE_SPAWN_INTERVAL_NS,
       elapsed |-> IF e >= PIPE_SPAWN_INTERVAL_NS THEN e % PIPE_SPAWN_INTERVAL_NS ELSE e]

top_height(c) == half_h - (c + (Px(PIPE_GAP) \div 2))
bottom_height(c) == half_h + (c - (Px(PIPE_GAP) \div 2))

SpawnedPair(c) ==
  { [x |-> Px(PIPE_SPAWN_X), y |-> half_h - (top_height(c) \div 2),
     h |-> top_height(c), is_top |-> TRUE, scored |-> FALSE],
    [x |-> Px(PIPE_SPAWN_X), y |-> (0 - half_h) + (bottom_height(c) \div 2),
     h |-> bottom_height(c), is_top |-> FALSE, scored |-> FALSE] }

\* check_collisions_and_scoring
\* a boundary check that forgets the floor
BoundaryHit_CeilingOnly(y) == y + (Px(BIRD_SIZE_Y) \div 2) >= half_h

BoundaryHit(y) ==
  \/ y - (Px(BIRD_SIZE_Y) \div 2) <= 0 - half_h
  \/ y + (Px(BIRD_SIZE_Y) \div 2) >= half_h

Overlaps(y, p) ==
  /\ 2 * Abs(Px(BIRD_START_X) - p.x) <= Px(BIRD_SIZE_X) + Px(PIPE_WIDTH)
  /\ 2 * Abs(y - p.y) <= Px(BIRD_SIZE_Y) + p.h

\* a pipe counted as passed when its left edge is behind the bird's left edge
Crossed_LeftEdge(p) ==
  2 * p.x - Px(PIPE_WIDTH) < 2 * Px(BIRD_START_X) - Px(BIRD_SIZE_X)

Crossed(p) ==
  2 * p.x + Px(PIPE_WIDTH) < 2 * Px(BIRD_START_X) - Px(BIRD_SIZE_X)

\* scoring that does not look at the pipe's role
Scorable_AnyRole(p) == ~p.scored /\ Crossed(p)

\* scoring that does not look at the scored flag
Scorable_NoFlag(p) == ~p.is_top /\ Crossed(p)

Scorable(p) == ~p.is_top /\ ~p.scored /\ Crossed(p)

\* The pipes the loop has handled when it is over: all of them when none
\* overlaps the bird; otherwise those visited before the first overlapping one.
\* The query's iteration order is not fixed by the program, so any set of
\* non-overlapping pipes can be the ones visited first.
VisitedSets(y, ps) ==
  IF \E p \in ps : Overlaps(y, p)
  THEN SUBSET {p \in ps : ~Overlaps(y, p)}
  ELSE {ps}

ScoreVisited(ps, visited) ==
  {IF p \in visited /\ Scorable(p) THEN [p EXCEPT !.scored = TRUE] ELSE p : p \in ps}

\* a collision step that ends the run at the boundaries only
check_collisions_and_scoring_BoundaryOnly(y, ps, visited) ==
  IF BoundaryHit(y)
  THEN [game_over |-> TRUE, gained |-> 0, pipes |-> ps]
  ELSE [game_over |-> FALSE,
        gained |-> Cardinality({p \in visited : Scorable(p)}),
        pipes |-> ScoreVisited(ps, visited)]

check_collisions_and_scoring(y, ps, visited) ==
  IF BoundaryHit(y)
  THEN [game_over |-> TRUE, gained |-> 0, pipes |-> ps]
  ELSE [game_over |-> \E p \in ps : Overlaps(y, p),
        gained |-> Cardinality({p \in visited : Scorable(p)}),
        pipes |-> ScoreVisited(ps, visited)]

\* start_game that does not clear the buffered flap
start_game_KeepLatch ==
  /\ score' = 0
  /\ flap_requested' = flap_requested
  /\ bird_y' = Px(BIRD_START_Y)
  /\ bird_vy' = 0
  /\ pipes' = {}
  /\ spawn_elapsed' = 0
  /\ ticks' = 0
  /\ retired_scored' = 0

\* start_game that does not reset the spawn timer
start_game_KeepTimer ==
  /\ score' = 0
  /\ flap_requested' = FALSE
  /\ bird_y' = Px(BIRD_START_Y)
  /\ bird_vy' = 0
  /\ pipes' = {}
  /\ spawn_elapsed' = spawn_elapsed
  /\ ticks' = 0
  /\ retired_scored' = 0

\* start_game (OnEnter(GameState::Playing)), its commands applied
start_game ==
  /\ score' = 0
  /\ flap_requested' = FALSE
  /\ bird_y' = Px(BIRD_START_Y)
  /\ bird_vy' = 0
  /\ pipes' = {}
  /\ spawn_elapsed' = 0
  /\ ticks' = 0
  /\ retired_scored' = 0

\* ------------------------------------------------------------------ the frame
Min(a, b) == IF a < b THEN a ELSE b

\* Time<Virtual> advances by the frame's real delta, at most max_delta, and
\* Time<Fixed> accumulates that much.
VirtualDelta(dt) == Min(dt, MAX_DELTA)
Accumulate(acc, dt) == acc + VirtualDelta(dt)
\* an accumulator that drops the remainder
Expend_DropRemainder(acc) == 0

\* Time<Fixed> expends one timestep for a run of FixedUpdate
Expend(acc) == acc - Timestep

Init ==
  /\ state = "Menu"
  /\ next_state = "None"
  /\ score = 0
  /\ flap_requested = FALSE
  /\ bird_y = Px(BIRD_START_Y)
  /\ bird_vy = 0
  /\ pipes = {}
  /\ spawn_elapsed = 0
  /\ overstep = 0
  /\ pc = "first"
  /\ ticks = 0
  /\ retired_scored = 0
  /\ real_ns = 0
  /\ virt_ns = 0
  /\ fixed_runs = 0
  /\ since_flap = 0
  /\ presses = 0
  /\ gap_center = 0
  /\ config = Shipped

\* First .. StateTransition of a frame: the clocks advance, then a pending
\* NextState is applied and OnEnter(Playing) runs start_game.
BeginFrame(dt) ==
  /\ pc = "first"
  /\ pc' = "fixed"
  /\ overstep' = Accumulate(overstep, dt)
  /\ IF next_state = "None"
     THEN UNCHANGED <<state, next_state, score, flap_requested, bird_y, bird_vy,
                      pipes, spawn_elapsed, ticks, retired_scored>>
     ELSE /\ state' = next_state
          /\ next_state' = "None"
          /\ IF next_state = "Playing"
             THEN start_game
             ELSE UNCHANGED <<score, flap_requested, bird_y, bird_vy, pipes,
                              spawn_elapsed, ticks, retired_scored>>

\* One run of the FixedUpdate chain, all six systems in_state(Playing):
\* handle_flap_input, animate_bird, apply_bird_physics, move_pipes,
\* spawn_pipes, check_collisions_and_scoring.
SimTick ==
  LET f == handle_flap_input(bird_vy, flap_requested)
      b == apply_bird_physics(bird_y, f.vy)
      moved == move_pipes(pipes)
      t == TimerTick(spawn_elapsed)
  IN  /\ ticks < MaxTicks
      /\ \E c \in (IF t.just_finished THEN GapCenters ELSE {0}) :
           LET ps == IF t.just_finished THEN moved \cup SpawnedPair(c) ELSE moved
           IN  \E visited \in VisitedSets(b.y, ps) :
                 LET r == check_collisions_and_scoring(b.y, ps, visited)
                 IN  /\ pipes' = r.pipes
                     /\ score' = score + r.gained
                     /\ next_state' = IF r.game_over THEN "GameOver" ELSE next_state
      /\ flap_requested' = f.requested
      /\ bird_vy' = b.vy
      /\ bird_y' = b.y
      /\ spawn_elapsed' = t.elapsed
      /\ ticks' = ticks + 1
      /\ retired_scored' = retired_scored
            + Cardinality({q \in RetiredNow(pipes) : ~q.is_top /\ q.scored})
      /\ UNCHANGED state

\* the fixed loop with the FixedUpdate systems not gated by the state
FixedTick_Ungated ==
  /\ pc = "fixed"
  /\ overstep >= Timestep
  /\ overstep' = Expend(overstep)
  /\ SimTick
  /\ UNCHANGED pc

\* RunFixedMainLoop: while the accumulator holds a timestep, expend it and run
\* FixedUpdate, whose systems run only in_state(Playing).
FixedTick ==
  /\ pc = "fixed"
  /\ overstep >= Timestep
  /\ overstep' = Expend(overstep)
  /\ IF state = "Playing"
     THEN SimTick
     ELSE UNCHANGED <<state, next_state, score, flap_requested, bird_y, bird_vy,
                      pipes, spawn_elapsed, ticks, retired_scored>>
  /\ UNCHANGED pc

\* Update with game_over_input not gated by the state
Update_Ungated(space, key_r) ==
  /\ pc = "fixed"
  /\ overstep < Timestep
  /\ pc' = "first"
  /\ next_state' = IF space \/ key_r THEN "Playing" ELSE next_state
  /\ flap_requested' = IF state = "Playing" /\ space THEN TRUE ELSE flap_requested
  /\ UNCHANGED <<state, score, bird_y, bird_vy, pipes, spawn_elapsed, overstep,
                 ticks, retired_scored>>

\* Update: menu_input, buffer_flap_input, game_over_input, each in its state
Update(space, key_r) ==
  /\ pc = "fixed"
  /\ overstep < Timestep
  /\ pc' = "first"
  /\ next_state' = IF \/ state = "Menu" /\ space
                      \/ state = "GameOver" /\ (space \/ key_r)
                   THEN "Playing" ELSE next_state
  /\ flap_requested' = IF state = "Playing" /\ space THEN TRUE ELSE flap_requested
  /\ UNCHANGED <<state, score, bird_y, bird_vy, pipes, spawn_elapsed, overstep,
                 ticks, retired_scored>>

\* ------------------------------------------------------------------ the game
\* The host: frame lengths and key presses
FrameDts == {k * Timestep : k \in 0..MaxFrameTicks}
SpaceChoices == IF state = "Playing" /\ ticks % FlapGrid # 0 THEN {FALSE} ELSE BOOLEAN
KeyRChoices == IF state = "GameOver" THEN BOOLEAN ELSE {FALSE}

clocks == <<real_ns, virt_ns, fixed_runs, since_flap, presses, gap_center, config>>

Frame == \E dt \in FrameDts : BeginFrame(dt) /\ UNCHANGED clocks
Fixed == FixedTick /\ UNCHANGED clocks
Input == \E space \in SpaceChoices, key_r \in KeyRChoices :
           Update(space, key_r) /\ UNCHANGED clocks

Next == Frame \/ Fixed \/ Input

Spec == Init /\ [][Next]_vars

\* ------------------------------------------------------------------ the game, never flapped
\* The game with a player who starts and restarts it but never presses Space
\* while Playing.  The runner keeps running frames; a frame runs its fixed loop
\* to the end and then Update; and frames that add a timestep or more to the
\* accumulator keep coming.
NoFlapInput ==
  \E space \in (IF state = "Playing" THEN {FALSE} ELSE BOOLEAN), key_r \in KeyRChoices :
    Update(space, key_r) /\ UNCHANGED clocks

TickingFrame == \E dt \in FrameDts \ {0} : BeginFrame(dt) /\ UNCHANGED clocks

NoFlapNext == Frame \/ Fixed \/ NoFlapInput

SpecNoFlap ==
  /\ Init /\ [][NoFlapNext]_vars
  /\ WF_vars(Fixed) /\ WF_vars(NoFlapInput) /\ SF_vars(TickingFrame)

\* ------------------------------------------------------------------ the scheduler alone
\* The same frame with no key pressed (the game stays in Menu), the clocks and
\* the runs of FixedUpdate recorded.  Frame deltas: 1/240 s, 1/60 s and 4/60 s
\* to the nearest nanosecond, four timesteps, and 300 ms.
ClockDts == {4166667, Timestep, 66666667, 4 * Timestep, 300000000}

ClockFrame ==
  \E dt \in ClockDts :
    /\ real_ns + dt <= MaxRealNs
    /\ BeginFrame(dt)
    /\ real_ns' = real_ns + dt
    /\ virt_ns' = virt_ns + VirtualDelta(dt)
    /\ UNCHANGED <<fixed_runs, since_flap, presses, gap_center, config>>

ClockFixed ==
  /\ FixedTick
  /\ fixed_runs' = fixed_runs + 1
  /\ UNCHANGED <<real_ns, virt_ns, since_flap, presses, gap_center, config>>

ClockUpdate == Update(FALSE, FALSE) /\ UNCHANGED clocks

ClockNext == ClockFrame \/ ClockFixed \/ ClockUpdate

SpecClock == Init /\ [][ClockNext]_vars

\* ------------------------------------------------------------------ the flyer alone
\* A Playing session right after start_game, in which only the flyer's systems
\* are followed (buffer_flap_input, handle_flap_input, apply_bird_physics):
\* Space may be pressed before any tick, and no boundary ends the run.
FlyerInit ==
  /\ state = "Playing"
  /\ next_state = "None"
  /\ score = 0
  /\ flap_requested = FALSE
  /\ bird_y = Px(BIRD_START_Y)
  /\ bird_vy = 0
  /\ pipes = {}
  /\ spawn_elapsed = 0
  /\ overstep = 0
  /\ pc = "fixed"
  /\ ticks = 0
  /\ retired_scored = 0
  /\ real_ns = 0
  /\ virt_ns = 0
  /\ fixed_runs = 0
  /\ since_flap = 0
  /\ presses = 0
  /\ gap_center = 0
  /\ config = Shipped

FlyerPress ==
  /\ presses < MaxFlyerFlaps
  /\ presses' = presses + 1
  /\ flap_requested' = TRUE
  /\ UNCHANGED <<state, next_state, score, bird_y, bird_vy, pipes, spawn_elapsed,
                 overstep, pc, ticks, retired_scored, real_ns, virt_ns, fixed_runs,
                 since_flap, gap_center, config>>

FlyerTick ==
  LET f == handle_flap_input(bird_vy, flap_requested)
      b == apply_bird_physics(bird_y, f.vy)
  IN  /\ ticks < MaxFlyerTicks
      /\ flap_requested' = f.requested
      /\ bird_vy' = b.vy
      /\ bird_y' = b.y
      /\ ticks' = ticks + 1
      /\ since_flap' = IF flap_requested THEN 0 ELSE since_flap + 1
      /\ UNCHANGED <<state, next_state, score, pipes, spawn_elapsed, overstep, pc,
                     retired_scored, real_ns, virt_ns, fixed_runs, presses,
                     gap_center, config>>

FlyerNext == FlyerPress \/ FlyerTick

SpecFlyer == FlyerInit /\ [][FlyerNext]_vars

\* ------------------------------------------------------------------ the spawner alone
\* A Playing session right after start_game, in which only the pipe stream is
\* followed (move_pipes, spawn_pipes): gen_range may return any value of the
\* closed range min_center..=max_center, here every whole pixel of it.
SpawnCenters ==
  {min_center + Px(i) : i \in 0..((max_center - min_center) \div Px(1))}

SpawnerTick ==
  LET moved == move_pipes(pipes)
      t == TimerTick(spawn_elapsed)
  IN  \E c \in SpawnCenters :
        /\ ticks < MaxSpawnerTicks
        /\ spawn_elapsed' = t.elapsed
        /\ pipes' = IF t.just_finished THEN moved \cup SpawnedPair(c) ELSE moved
        /\ gap_center' = IF t.just_finished THEN c ELSE gap_center
        /\ ticks' = ticks + 1
        /\ UNCHANGED <<state, next_state, score, flap_requested, bird_y, bird_vy,
                       overstep, pc, retired_scored, real_ns, virt_ns, fixed_runs,
                       since_flap, presses, config>>

SpawnerNext == SpawnerTick

SpecSpawn == FlyerInit /\ [][SpawnerNext]_vars

\* ------------------------------------------------------------------ configurations
\* The constants are compiled in; a configuration is a build with other values
\* of PIPE_GAP and GAP_MARGIN.  The builds followed are the shipped one and two
\* whose spawn range is empty: a gap one pixel too tall, and a gap as tall as
\* the window.  main() and start_game() never look at the range; spawn_pipes
\* calls gen_range(min_center..=max_center), which panics on an empty range.
ConfigChoices ==
  {Shipped,
   [gap |-> WINDOW_H - 2 * GAP_MARGIN + 1, margin |-> GAP_MARGIN],
   [gap |-> WINDOW_H, margin |-> GAP_MARGIN]}

ConfigMinCenter(cfg) == (0 - half_h) + Px(cfg.margin) + (Px(cfg.gap) \div 2)
ConfigMaxCenter(cfg) == half_h - Px(cfg.margin) - (Px(cfg.gap) \div 2)
RangeEmpty(cfg) == ConfigMinCenter(cfg) > ConfigMaxCenter(cfg)

ConfigInit ==
  /\ state = "Playing"
  /\ next_state = "None"
  /\ score = 0
  /\ flap_requested = FALSE
  /\ bird_y = Px(BIRD_START_Y)
  /\ bird_vy = 0
  /\ pipes = {}
  /\ spawn_elapsed = 0
  /\ overstep = 0
  /\ pc = "fixed"
  /\ ticks = 0
  /\ retired_scored = 0
  /\ real_ns = 0
  /\ virt_ns = 0
  /\ fixed_runs = 0
  /\ since_flap = 0
  /\ presses = 0
  /\ gap_center = 0
  /\ config \in ConfigChoices

\* One fixed tick of the pipe stream in the configured build; pc = "panic" is
\* the process aborted by the panic of gen_range.
ConfigTick ==
  LET moved == move_pipes(pipes)
      t == TimerTick(spawn_elapsed)
  IN  /\ pc = "fixed"
      /\ ticks < MaxConfigTicks
      /\ ticks' = ticks + 1
      /\ spawn_elapsed' = t.elapsed
      /\ IF ~t.just_finished
         THEN pipes' = moved /\ UNCHANGED <<pc, gap_center>>
         ELSE IF RangeEmpty(config)
              THEN pipes' = moved /\ pc' = "panic" /\ UNCHANGED gap_center
              ELSE \E c \in {ConfigMinCenter(config), ConfigMaxCenter(config)} :
                     /\ pipes' = moved \cup SpawnedPair(c)
                     /\ gap_center' = c
                     /\ UNCHANGED pc
      /\ UNCHANGED <<state, next_state, score, flap_requested, bird_y, bird_vy,
                     overstep, retired_scored, real_ns, virt_ns, fixed_runs,
                     since_flap, presses, config>>

ConfigNext == ConfigTick

SpecConfig == ConfigInit /\ [][ConfigNext]_vars

\* ------------------------------------------------------------------ claims
\* Game-over has been signalled in this session: NextState holds GameOver, or
\* the transition has been applied.
GameOverSignalled == state = "GameOver" \/ next_state = "GameOver"
\* The step is a simulated fixed tick
SimTickStep == ticks' = ticks + 1
\* The step applies a pending transition into Playing
EnterPlaying == state # "Playing" /\ state' = "Playing"
\* The step is the Update schedule of a frame
UpdateStep == pc = "fixed" /\ pc' = "first"
\* The velocity right after a tick that consumed a flap
FlapTickVelocity ==
  IF Vel(FLAP_VELOCITY) + AccelDt(GRAVITY) < Vel(MAX_FALL_SPEED)
  THEN Vel(MAX_FALL_SPEED)
  ELSE Vel(FLAP_VELOCITY) + AccelDt(GRAVITY)

\* C1: once the collision step has signalled game-over (boundary or pipe
\* overlap), no simulation tick executes before the next entry to Playing,
\* however many ticks the scheduler runs in the frame.
C1_NoTickAfterSignal == [][GameOverSignalled => ~SimTickStep]_vars

\* C2: after the tick in which game-over is signalled the score is never
\* incremented until the next entry to Playing resets it.
C2_NoScoreAfterSignal == [][GameOverSignalled => score' <= score]_vars

\* C3: the mode starts as Menu, is always exactly one of the three modes, and
\* changes only Menu->Playing and GameOver->Playing (each applying an intent
\* raised by the Update of that mode) and Playing->GameOver (applying the signal,
\* which only a collision step that found a boundary breach or an overlap raises).
C3_Step ==
  /\ state' # state =>
       /\ <<state, state'>> \in {<<"Menu", "Playing">>, <<"Playing", "GameOver">>,
                                 <<"GameOver", "Playing">>}
       /\ next_state = state'
  /\ (next_state' = "GameOver" /\ next_state # "GameOver") =>
       /\ state = "Playing"
       /\ SimTickStep
       /\ BoundaryHit(bird_y') \/ \E p \in pipes' : Overlaps(bird_y', p)
  /\ (next_state' = "Playing" /\ next_state # "Playing") =>
       /\ state \in {"Menu", "GameOver"}
       /\ UpdateStep

C3_ModeMachine ==
  /\ state = "Menu"
  /\ [](state \in GameState /\ next_state \in {"None", "Playing", "GameOver"})
  /\ [][C3_Step]_vars

C3_Witness == state = "GameOver" /\ next_state = "Playing" /\ pc = "first"

\* C4: every step that enters Playing leaves score 0, the flyer at its start
\* position with zero velocity, no live pipe, the spawn timer at zero, the flap
\* latch clear and no tick of the session run.
ResetState ==
  /\ score = 0
  /\ bird_y = Px(BIRD_START_Y)
  /\ bird_vy = 0
  /\ pipes = {}
  /\ spawn_elapsed = 0
  /\ flap_requested = FALSE
  /\ ticks = 0

C4_ResetComplete == [][EnterPlaying => ResetState']_vars

C4_Witness ==
  /\ state = "GameOver" /\ next_state = "Playing" /\ pc = "first"
  /\ pipes # {} /\ flap_requested /\ spawn_elapsed > 0 /\ bird_vy # 0

\* C5: the latch is set only by an Update while Playing; a tick that runs with
\* the latch set applies the impulse and clears the latch; a tick that runs
\* with the latch clear applies no impulse; a set latch is cleared only by a
\* tick or by the reset on entry to Playing.
C5_Step ==
  /\ (SimTickStep /\ flap_requested) =>
       bird_vy' = FlapTickVelocity /\ ~flap_requested'
  /\ (SimTickStep /\ ~flap_requested) =>
       bird_vy' <= bird_vy /\ ~flap_requested'
  /\ (flap_requested /\ ~flap_requested') => SimTickStep \/ EnterPlaying
  /\ (~flap_requested /\ flap_requested') => state = "Playing" /\ UpdateStep

C5_LatchConsumedOnce == [][C5_Step]_vars

C5_Witness ==
  /\ state = "Playing" /\ pc = "fixed" /\ overstep = Timestep
  /\ ~flap_requested /\ bird_vy = FlapTickVelocity /\ ticks > 1

\* C6: a tick that consumes a pending flap leaves the velocity at
\* FLAP_VELOCITY + GRAVITY*dt (clamped) and moves the flyer by that velocity,
\* whatever the velocity was before; and a press while the latch is already set
\* changes nothing.
C6_Step ==
  /\ (SimTickStep /\ flap_requested) =>
       /\ bird_vy' = FlapTickVelocity
       /\ bird_y' = bird_y + VelDt(FlapTickVelocity)
  /\ (flap_requested /\ presses' = presses + 1) =>
       /\ flap_requested'
       /\ UNCHANGED <<bird_y, bird_vy>>

C6_FlapOverwrites == [][C6_Step]_vars

C6_Witness ==
  /\ presses = 2 /\ since_flap = 0 /\ ticks > 1
  /\ bird_vy = FlapTickVelocity /\ bird_y < Px(BIRD_START_Y)

\* C7: the score equals the number of bottom pipes of the session whose scored
\* flag is set (live or already despawned); only bottom pipes whose right edge
\* is left of the flyer are scored; while no game-over is signalled every
\* crossed bottom pipe is scored; the score only grows within a session, by at
\* most the number of unscored crossed pipes.
C7_Inv ==
  /\ score = retired_scored + Cardinality({p \in pipes : p.scored})
  /\ \A p \in pipes : p.scored => ~p.is_top /\ Crossed(p)
  /\ (state = "Playing" /\ next_state = "None") =>
       \A p \in pipes : (~p.is_top /\ Crossed(p)) => p.scored

C7_Step ==
  \/ EnterPlaying
  \/ /\ score' >= score
     /\ score' - score <= Cardinality({p \in pipes' : ~p.is_top /\ Crossed(p)})
                          - Cardinality({p \in move_pipes(pipes) : p.scored})

C7_ScoredOnce == []C7_Inv /\ [][C7_Step]_vars

C7_Witness ==
  /\ state = "Playing" /\ next_state = "None"
  /\ score = 2 /\ retired_scored = 1

\* C8: a step that starts and ends outside Playing changes neither the flyer,
\* the pipes, the score nor the spawn timer; in Menu the world is the initial one.
C8_FrozenWorld ==
  /\ [](state = "Menu" =>
          /\ bird_y = Px(BIRD_START_Y) /\ bird_vy = 0
          /\ pipes = {} /\ score = 0)
  /\ [][(state # "Playing" /\ state' # "Playing") => UNCHANGED world]_vars

C8_Witness ==
  /\ state = "GameOver" /\ pc = "fixed" /\ overstep = Timestep
  /\ pipes # {} /\ score > 0

\* C9 as stated: at the end of every frame the number of fixed ticks run is
\* floor(60 * real time elapsed).
C9_TicksAreFloor ==
  pc = "first" => fixed_runs = (3 * real_ns) \div 50000000

\* C9 as amended: the accumulator receives min(real_dt, 250 ms) per frame and
\* one tick runs per whole timestep of 16,666,667 ns, the remainder carried:
\* run ticks and remainder always add up to the clock time received, and at
\* the end of a frame the remainder is less than a timestep.  Four frames of
\* 4,166,667 ns give one tick, a frame of four timesteps gives four.
C9_Inv ==
  /\ fixed_runs * Timestep + overstep = virt_ns
  /\ pc = "first" => overstep < Timestep
  /\ (pc = "first" /\ real_ns = 4 * 4166667) => fixed_runs = 1
  /\ (pc = "first" /\ real_ns = 4 * Timestep) => fixed_runs = 4

C9_TicksPerTimestep ==
  /\ []C9_Inv
  /\ [][virt_ns' - virt_ns <= MAX_DELTA /\ virt_ns' - virt_ns <= real_ns' - real_ns]_vars

C9_Witness ==
  /\ pc = "first" /\ real_ns > virt_ns /\ overstep > 0 /\ fixed_runs >= 14

\* C10: the velocity is never below MAX_FALL_SPEED; a tick without a flap
\* never raises it; after 51 ticks without a flap (31 from the reset) it equals
\* MAX_FALL_SPEED, and stays there on every later tick without a flap.
C10_Inv ==
  /\ bird_vy >= Vel(MAX_FALL_SPEED)
  /\ since_flap >= 51 => bird_vy = Vel(MAX_FALL_SPEED)
  /\ (presses = 0 /\ ticks >= 31) => bird_vy = Vel(MAX_FALL_SPEED)

C10_Step ==
  (SimTickStep /\ ~flap_requested) =>
     /\ bird_vy' <= bird_vy
     /\ bird_vy = Vel(MAX_FALL_SPEED) => bird_vy' = Vel(MAX_FALL_SPEED)
     /\ bird_vy > Vel(MAX_FALL_SPEED) => bird_vy' < bird_vy

C10_FallClamp == []C10_Inv /\ [][C10_Step]_vars

C10_Witness ==
  /\ presses > 0 /\ since_flap > 51 /\ bird_vy = Vel(MAX_FALL_SPEED)

\* C11: every pair spawned for a gap center of the spawn range has a top and a
\* bottom pipe of height at least GAP_MARGIN whose heights and the gap add up to
\* the window height; the top pipe hangs from the top edge of the playfield down
\* to gap_center + PIPE_GAP/2 and the bottom pipe stands on the bottom edge up
\* to gap_center - PIPE_GAP/2.
C11_GapValid ==
  /\ min_center <= gap_center /\ gap_center <= max_center
  /\ pipes # {} =>
       /\ \E t \in pipes : t.is_top
       /\ \E b \in pipes : ~b.is_top
  /\ \A t \in pipes : \A b \in pipes :
       (t.is_top /\ ~b.is_top /\ t.x = b.x) =>
         /\ t.h >= Px(GAP_MARGIN)
         /\ b.h >= Px(GAP_MARGIN)
         /\ t.h + Px(PIPE_GAP) + b.h = Px(WINDOW_H)
         /\ 2 * t.y + t.h = Px(WINDOW_H)
         /\ 2 * t.y - t.h = 2 * gap_center + Px(PIPE_GAP)
         /\ 2 * b.y - b.h = 0 - Px(WINDOW_H)
         /\ 2 * b.y + b.h = 2 * gap_center - Px(PIPE_GAP)

C11_Witness ==
  /\ gap_center = min_center
  /\ \E b \in pipes : ~b.is_top /\ b.h = Px(GAP_MARGIN) /\ b.x < Px(PIPE_SPAWN_X)
  /\ \E t \in pipes : t.is_top /\ t.h = Px(WINDOW_H) - Px(PIPE_GAP) - Px(GAP_MARGIN)

PassedBird(p) ==
  2 * p.x + Px(PIPE_WIDTH) < 2 * Px(BIRD_START_X) - Px(BIRD_SIZE_X)
\* The pipe q of this state is the pipe p of the next state, one move earlier
MovedTo(q, p) ==
  /\ p.x = q.x + SpeedDt(PIPE_SPEED)
  /\ p.y = q.y /\ p.h = q.h /\ p.is_top = q.is_top

\* C14: on a tick in which the bird overlaps a live pipe, game-over is
\* signalled, the score is not incremented and no scored flag is set, whatever
\* the order in which the pipes are visited; on a tick with no overlap and no
\* boundary breach, every live bottom pipe whose right edge is left of the
\* bird's left edge is scored when the tick is over.
C14_Step ==
  SimTickStep =>
    LET hit == \E p \in pipes' : Overlaps(bird_y', p)
    IN  /\ hit =>
              /\ next_state' = "GameOver"
              /\ score' = score
              /\ \A p \in pipes' :
                   p.scored => \E q \in pipes : q.scored /\ MovedTo(q, p)
        /\ (~hit /\ ~BoundaryHit(bird_y')) =>
              \A p \in pipes' : (~p.is_top /\ PassedBird(p)) => p.scored

C14_CollisionBeforeScoring == [][C14_Step]_vars

C14_Witness ==
  /\ state = "Playing" /\ next_state = "GameOver"
  /\ ~BoundaryHit(bird_y)
  /\ \E p \in pipes : Overlaps(bird_y, p)
  /\ \E p \in pipes : p.scored
  /\ score = 1

\* Fixed ticks in one spawn interval: the least number of timesteps that fill it
SpawnTicks == (PIPE_SPAWN_INTERVAL_NS + Timestep - 1) \div Timestep
\* The pipes of the next state that are no moved pipe of this state
NewPipes == {p \in pipes' : ~\E q \in pipes : MovedTo(q, p)}

\* C15: a session starts with no pipe; its first pair is spawned on its 96th
\* fixed tick, whatever the timer held when the previous session ended, and one
\* pair on every 96th tick after that, none on any other tick; a spawned pair
\* is one top and one bottom pipe at x = PIPE_SPAWN_X, not scored.
C15_Step ==
  /\ EnterPlaying => (ticks' = 0 /\ pipes' = {})
  /\ SimTickStep =>
       IF ticks' % SpawnTicks = 0
       THEN /\ Cardinality(NewPipes) = 2
            /\ \E p \in NewPipes : p.is_top
            /\ \E p \in NewPipes : ~p.is_top
            /\ \A p \in NewPipes : p.x = Px(PIPE_SPAWN_X) /\ ~p.scored
       ELSE NewPipes = {}

C15_SpawnTiming == [](SpawnTicks = 96) /\ [][C15_Step]_vars

C15_Witness ==
  /\ state = "Playing"
  /\ ticks = 2 * SpawnTicks
  /\ Cardinality(pipes) = 4
  /\ \E p \in pipes : p.x = Px(PIPE_SPAWN_X)
  /\ \E p \in pipes : p.x = Px(PIPE_SPAWN_X) + SpawnTicks * SpeedDt(PIPE_SPEED)

\* C16: on every simulated tick each live pipe moves left by |PIPE_SPEED| * dt,
\* except that a pipe whose new x is below PIPE_DESPAWN_X is gone when the tick
\* is over and a pair spawned on the tick stands unmoved at PIPE_SPAWN_X; so
\* every live pipe has PIPE_DESPAWN_X <= x <= PIPE_SPAWN_X, and the pipes that
\* end the run or score on a tick are live pipes of that tick.
C16_Inv ==
  \A p \in pipes : Px(PIPE_DESPAWN_X) <= p.x /\ p.x <= Px(PIPE_SPAWN_X)

C16_Step ==
  SimTickStep =>
    /\ \A q \in pipes :
         IF q.x + SpeedDt(PIPE_SPEED) < Px(PIPE_DESPAWN_X)
         THEN ~\E p \in pipes' : MovedTo(q, p)
         ELSE \E p \in pipes' : MovedTo(q, p) /\ p.x = q.x - Px(Abs(PIPE_SPEED)) \div FIXED_HZ
    /\ \A p \in NewPipes : p.x = Px(PIPE_SPAWN_X)
    /\ score' - score =
         Cardinality({p \in pipes' : p.scored /\ \E q \in pipes : ~q.scored /\ MovedTo(q, p)})
    /\ (next_state' = "GameOver" /\ next_state # "GameOver") =>
         BoundaryHit(bird_y') \/ \E p \in pipes' : Overlaps(bird_y', p)

C16_AdvanceAndRetire == []C16_Inv /\ [][C16_Step]_vars

C16_Witness ==
  /\ state = "Playing" /\ next_state = "None"
  /\ retired_scored = 1
  /\ Cardinality(pipes) = 8
  /\ \A p \in pipes : p.x # Px(PIPE_SPAWN_X)

\* The pairs that fit between the spawn and the despawn line: the travel
\* divided by the distance between two spawns, rounded up, plus one
PairSpacing == SpawnTicks * Abs(SpeedDt(PIPE_SPEED))
MaxLivePairs ==
  ((Px(PIPE_SPAWN_X) - Px(PIPE_DESPAWN_X) + PairSpacing - 1) \div PairSpacing) + 1

\* C17: the live pipes never outnumber a constant fixed by the spawn interval,
\* the speed and the two lines: at most 5 pairs, 10 pipes, at any time.
C17_BoundedLiveSet ==
  /\ MaxLivePairs = 5
  /\ Cardinality({p.x : p \in pipes}) <= MaxLivePairs
  /\ Cardinality(pipes) <= 2 * MaxLivePairs

C17_Witness ==
  /\ state = "Playing"
  /\ Cardinality(pipes) = 2 * MaxLivePairs
  /\ \E p \in pipes : p.x = Px(PIPE_SPAWN_X)
  /\ \E p \in pipes : p.x = Px(PIPE_DESPAWN_X)

\* C18: the live pipes are complete pairs: every top pipe has exactly one
\* bottom pipe at its x and every bottom pipe exactly one top pipe, with the
\* heights they were spawned with; the two move together and are despawned on
\* the same tick, no pipe's height or center ever changes, and only bottom
\* pipes are ever marked scored.
C18_Inv ==
  \A p \in pipes :
    /\ Cardinality({q \in pipes : q.x = p.x}) = 2
    /\ \E q \in pipes :
         /\ q.x = p.x /\ q.is_top # p.is_top
         /\ p.h + Px(PIPE_GAP) + q.h = Px(WINDOW_H)
         /\ Abs(p.y - q.y) = Px(PIPE_GAP) + (p.h + q.h) \div 2
    /\ p.scored => ~p.is_top

C18_Step ==
  SimTickStep =>
    /\ \A q \in pipes :
         \/ \E p \in pipes' : MovedTo(q, p)
         \/ \A r \in pipes : r.x = q.x => ~\E p \in pipes' : p.x = r.x + SpeedDt(PIPE_SPEED)
    /\ \A p \in pipes' : p \in NewPipes => p.x = Px(PIPE_SPAWN_X)

C18_PairIntegrity == []C18_Inv /\ [][C18_Step]_vars

C18_Witness ==
  /\ state = "Playing" /\ next_state = "None"
  /\ Cardinality(pipes) = 8
  /\ retired_scored = 0
  /\ Cardinality({p \in pipes : p.scored}) = 2

\* The pipe and the bird overlap on the x axis
XOverlap(p) ==
  2 * Abs(Px(BIRD_START_X) - p.x) <= Px(BIRD_SIZE_X) + Px(PIPE_WIDTH)

\* C19: a bottom pipe marked scored has its right edge strictly left of the
\* bird's left edge, on the tick it is marked and ever after (the mark stays);
\* neither it nor the top pipe of its pair overlaps the bird, so neither ends
\* the run; and a pipe despawned on a tick that began with play going on
\* belongs to a pair whose bottom pipe was marked scored.
C19_Inv ==
  \A p \in pipes :
    p.scored =>
      /\ PassedBird(p)
      /\ \A q \in pipes : q.x = p.x => (~XOverlap(q) /\ ~Overlaps(bird_y, q))

C19_Step ==
  SimTickStep =>
    /\ \A q \in pipes : \A p \in pipes' : (q.scored /\ MovedTo(q, p)) => p.scored
    /\ (next_state' = "GameOver" /\ next_state # "GameOver" /\ ~BoundaryHit(bird_y')) =>
         \E p \in pipes' :
           Overlaps(bird_y', p) /\ ~\E r \in pipes' : r.x = p.x /\ r.scored
    /\ (state = "Playing" /\ next_state = "None") =>
         \A q \in pipes :
           q.x + SpeedDt(PIPE_SPEED) < Px(PIPE_DESPAWN_X) =>
             \E r \in pipes : r.x = q.x /\ ~r.is_top /\ r.scored

C19_ScoredCannotKill == []C19_Inv /\ [][C19_Step]_vars

C19_Witness ==
  /\ state = "Playing"
  /\ retired_scored >= 1
  /\ \E p \in pipes : \E q \in pipes :
       /\ p.scored /\ q.is_top /\ q.x = p.x
       /\ 2 * Abs(bird_y - q.y) <= Px(BIRD_SIZE_Y) + q.h

\* The bird's bottom edge is at or below the floor
FloorHit(y) == y - (Px(BIRD_SIZE_Y) \div 2) <= 0 - half_h

\* C20: in a session in which Space is never pressed, while ticks keep being
\* simulated, game-over is eventually signalled; the tick that signals it
\* finds the bird on the floor, and it comes before the first spawn: fewer
\* than 96 ticks into the session, with no pipe and score 0.
C20_Step ==
  (SimTickStep /\ next_state' = "GameOver" /\ next_state # "GameOver") =>
    /\ FloorHit(bird_y')
    /\ ticks' < SpawnTicks
    /\ pipes' = {}
    /\ score' = 0

C20_NoFlapRunEnds ==
  /\ (state = "Playing" /\ next_state = "None") ~> (next_state = "GameOver")
  /\ [](state = "Playing" => (ticks < SpawnTicks /\ pipes = {} /\ score = 0))
  /\ [][C20_Step]_vars

C20_Witness ==
  /\ state = "GameOver"
  /\ FloorHit(bird_y)
  /\ ticks < SpawnTicks
  /\ pipes = {}
  /\ score = 0

====
